---- MODULE Spec2Model ----
(***************************************************************************)
(* Model of the automaton engine of src/app.py (class DFAValidator):       *)
(* validate_dfa, simulate_string, batch_test, parse_jflap and minimize_dfa.*)
(*                                                                         *)
(* Python values are modelled as follows.                                  *)
(*   - a str is a sequence of one-character strings, so that the empty     *)
(*     string, prefixing (f"q{...}") and truthiness are what they are in   *)
(*     Python: "q0" is <<"q","0">>, "" is << >>;                           *)
(*   - a dict is a function whose DOMAIN is its key set;                   *)
(*   - a list is a sequence, a set is a set.  The iteration order of a     *)
(*     Python set of str is not fixed by the language (hash seed), so      *)
(*     every place where the code iterates a set is a nondeterministic     *)
(*     choice of order;                                                    *)
(*   - a state is a record [id, isStart, isFinal]; the display coordinates *)
(*     x, y are carried through by the code without effect on any other    *)
(*     field and are left out;                                             *)
(*   - list(p) of a set p in a recorded step is kept as the set p.         *)
(*                                                                         *)
(* The automata handed to the operations satisfy the data model: state ids *)
(* are unique within an automaton and the alphabet is a sorted list without*)
(* duplicates.  Everything the engine is said to tolerate is present:      *)
(* several start flags, no start flag, transitions from or to an id that   *)
(* no state carries, symbols outside the alphabet, several transitions for *)
(* one (from, symbol), the empty string as an id.                          *)
(***************************************************************************)
EXTENDS Integers, Sequences, FiniteSets, TLC

VARIABLES
    dfa_data,       \* the automaton handed to the operation
    test_strings,   \* batch_test / simulate_string input strings
    xml,            \* parse_jflap input (the parsed element tree)
    pc,             \* position of the running operation
    calls,          \* number of minimize_dfa calls started (1 or 2)
    reachable,      \* minimize_dfa: set of ids found by the BFS
    partitions,     \* minimize_dfa: current list of groups
    steps,          \* minimize_dfa: recorded refinement steps
    changed,        \* minimize_dfa: loop flag
    iteration,      \* minimize_dfa: pass counter
    result          \* value returned by the operation

vars == <<dfa_data, test_strings, xml, pc, calls, reachable, partitions,
          steps, changed, iteration, result>>

---------------------------------------------------------------------------
(* Bounds of the explored inputs. *)

\* generated automata: number of states + number of transitions <= MaxSize
MaxSize == 4

\* length of the strings of the language properties and of the batches
MaxStrLen == 3

---------------------------------------------------------------------------
(* Strings and ids. *)

Digits == <<"0", "1", "2", "3", "4", "5", "6", "7", "8", "9">>

\* str(i) for 0 <= i <= 9
DigitStr(i) == <<Digits[i + 1]>>

\* f"q{s}"
QPrefix(s) == <<"q">> \o s

\* f"P{idx}"
PId(idx) == <<"P">> \o DigitStr(idx)

\* Python truthiness of a str
Truthy(s) == Len(s) > 0

Range(f) == {f[i] : i \in DOMAIN f}

EmptyDict == [k \in {} |-> << >>]

\* next((s for s in states if s.get('isStart')), None); "None" is modelled
\* by the caller testing HasStart first.
HasStart(states) == \E i \in DOMAIN states : states[i].isStart

FirstStart(states) ==
    states[CHOOSE i \in DOMAIN states :
              /\ states[i].isStart
              /\ \A j \in DOMAIN states : states[j].isStart => i <= j]

\* next(s for s in active_states if s['id'] == sid)
StateById(states, sid) ==
    states[CHOOSE i \in DOMAIN states :
              /\ states[i].id = sid
              /\ \A j \in DOMAIN states : states[j].id = sid => i <= j]

---------------------------------------------------------------------------
(* minimize_dfa *)

\* adj, built by one pass over the transitions, a later entry for the same
\* (from, symbol) overwriting an earlier one.
RECURSIVE BuildAdj(_, _)
BuildAdj(transitions, n) ==
    IF n = 0 THEN EmptyDict
    ELSE LET prev == BuildAdj(transitions, n - 1)
             t == transitions[n]
             key == <<t.from, t.symbol>>
         IN  [k \in DOMAIN prev \cup {key} |->
                 IF k = key THEN t.to ELSE prev[k]]

Adj(dfa) == BuildAdj(dfa.transitions, Len(dfa.transitions))

\* for symbol in alphabet: ... (the body of the BFS loop for one curr)
RECURSIVE BFSExpand(_, _, _, _, _)
BFSExpand(adj, alphabet, curr, i, st) ==
    IF i > Len(alphabet) THEN st
    ELSE LET key == <<curr, alphabet[i]>>
         IN  IF key \in DOMAIN adj /\ adj[key] \notin st.reachable
             THEN BFSExpand(adj, alphabet, curr, i + 1,
                            [reachable |-> st.reachable \cup {adj[key]},
                             queue |-> Append(st.queue, adj[key])])
             ELSE BFSExpand(adj, alphabet, curr, i + 1, st)

\* while queue: curr = queue.pop(0) ...
RECURSIVE BFS(_, _, _)
BFS(adj, alphabet, st) ==
    IF st.queue = << >> THEN st.reachable
    ELSE BFS(adj, alphabet,
             BFSExpand(adj, alphabet, Head(st.queue), 1,
                       [reachable |-> st.reachable, queue |-> Tail(st.queue)]))

\* variant: the reachability filter left out (active_states = states)
ActiveStatesUnfiltered(states, reach) == states

\* active_states = [s for s in states if s['id'] in reachable]
ActiveStates(states, reach) == SelectSeq(states, LAMBDA s : s.id \in reach)

\* final / non-final groups, the final group first, an empty group omitted
InitialPartitions(active) ==
    LET final_states == {active[i].id : i \in {j \in DOMAIN active : active[j].isFinal}}
        non_final_states == {active[i].id : i \in {j \in DOMAIN active : ~active[j].isFinal}}
    IN  (IF final_states # {} THEN <<final_states>> ELSE << >>)
        \o (IF non_final_states # {} THEN <<non_final_states>> ELSE << >>)

\* index (from 0) of the first partition holding target, -1 if none
PartitionIndex(parts, target) ==
    LET hits == {idx \in DOMAIN parts : target \in parts[idx]}
    IN  IF hits = {} THEN -1
        ELSE (CHOOSE idx \in hits : \A other \in hits : idx <= other) - 1

\* signature of one state: one entry per alphabet symbol
Signature(adj, alphabet, parts, state_id) ==
    [i \in DOMAIN alphabet |->
        LET key == <<state_id, alphabet[i]>>
        IN  IF key \in DOMAIN adj /\ Truthy(adj[key])
            THEN PartitionIndex(parts, adj[key])
            ELSE -1]

\* variant: each state overwrites the sub-group of its signature instead of
\* joining it (groups_by_signature[sig_tuple] = {state_id})
SplitGroupOverwrite(adj, alphabet, parts, group) ==
    {{CHOOSE s \in group : Signature(adj, alphabet, parts, s)
                             = Signature(adj, alphabet, parts, t)} : t \in group}

\* groups_by_signature.values(), as a set of sub-groups
SplitGroup(adj, alphabet, parts, group) ==
    {{s \in group : Signature(adj, alphabet, parts, s)
                      = Signature(adj, alphabet, parts, t)} : t \in group}

\* all the orders in which a set can be iterated
Orders(S) ==
    {f \in [1..Cardinality(S) -> S] :
        \A i, j \in 1..Cardinality(S) : i # j => f[i] # f[j]}

\* One pass of "for group in partitions": the possible values of
\* (new_partitions, changed), one per iteration order of the split groups.
RECURSIVE RefineGroups(_, _, _, _)
RefineGroups(adj, alphabet, parts, i) ==
    IF i > Len(parts) THEN {[parts |-> << >>, changed |-> FALSE]}
    ELSE LET group == parts[i]
             rest == RefineGroups(adj, alphabet, parts, i + 1)
             subs == SplitGroup(adj, alphabet, parts, group)
             heads == IF Cardinality(group) <= 1 THEN {<<group>>}
                      ELSE Orders(subs)
             split == Cardinality(group) > 1 /\ Cardinality(subs) > 1
         IN  {[parts |-> h \o r.parts, changed |-> split \/ r.changed] :
                 h \in heads, r \in rest}

\* minimized_states.  label holds the member ids that the label text
\* "{id1,id2,...}" lists.
MinimizedStates(active, parts) ==
    [idx \in DOMAIN parts |->
        [id |-> PId(idx - 1),
         label |-> parts[idx],
         isStart |-> \E sid \in parts[idx] : StateById(active, sid).isStart,
         isFinal |-> \E sid \in parts[idx] : StateById(active, sid).isFinal]]

\* state_to_partition
StateToPartition(parts) ==
    [sid \in UNION Range(parts) |-> PId(PartitionIndex(parts, sid))]

\* minimized_transitions: for p_idx, for symbol, in that order; j numbers
\* the (p_idx, symbol) pairs.  rep[p_idx] is next(iter(p)).
RECURSIVE QuotientTransitions(_, _, _, _, _)
QuotientTransitions(adj, alphabet, parts, rep, j) ==
    IF j = 0 THEN << >>
    ELSE LET prev == QuotientTransitions(adj, alphabet, parts, rep, j - 1)
             p_idx == ((j - 1) \div Len(alphabet)) + 1
             symbol == alphabet[((j - 1) % Len(alphabet)) + 1]
             key == <<rep[p_idx], symbol>>
             s2p == StateToPartition(parts)
         IN  IF key \in DOMAIN adj /\ Truthy(adj[key]) /\ adj[key] \in DOMAIN s2p
             THEN LET trans == [from |-> PId(p_idx - 1),
                                to |-> s2p[adj[key]],
                                symbol |-> symbol]
                  IN  IF trans \in Range(prev) THEN prev ELSE Append(prev, trans)
             ELSE prev

\* the possible choices of one representative per partition
Representatives(parts) ==
    {rep \in [DOMAIN parts -> UNION Range(parts)] :
        \A idx \in DOMAIN parts : rep[idx] \in parts[idx]}

---------------------------------------------------------------------------
(* simulate_string and batch_test *)

\* the token standing for Python's None where a str is expected
None == <<"None">>

\* dict.get(key, default) on a result
Get(r, key, default) == IF key \in DOMAIN r THEN r[key] ELSE default

\* state_map = {state['id']: state for state in states}
StateMap(states) ==
    [sid \in {states[i].id : i \in DOMAIN states} |->
        states[CHOOSE i \in DOMAIN states :
                  /\ states[i].id = sid
                  /\ \A j \in DOMAIN states : states[j].id = sid => j <= i]]

\* The walk over the input from position i (1-based here, 0-based in
\* stuck_at), then the final-state check.  A lookup of an id that is not in
\* state_map raises KeyError: the call returns nothing, which is the record
\* [exception |-> "KeyError"].
RECURSIVE Walk(_, _, _, _, _, _)
Walk(state_map, transitions, input_string, i, current_state_id, path) ==
    IF i > Len(input_string)
    THEN IF current_state_id \notin DOMAIN state_map
         THEN [exception |-> "KeyError"]
         ELSE [accepted |-> state_map[current_state_id].isFinal,
               path |-> path,
               final_state |-> current_state_id,
               is_final |-> state_map[current_state_id].isFinal]
    ELSE LET key == <<current_state_id, input_string[i]>>
         IN  IF key \notin DOMAIN transitions
             THEN [accepted |-> FALSE,
                   path |-> path,
                   stuck_at |-> i - 1,
                   reason |-> <<"No transition", current_state_id, input_string[i]>>]
             ELSE Walk(state_map, transitions, input_string, i + 1,
                       transitions[key], Append(path, transitions[key]))

simulate_string(dfa, input_string) ==
    IF ~HasStart(dfa.states)
    THEN [error |-> "No start state defined"]
    ELSE Walk(StateMap(dfa.states), Adj(dfa), input_string, 1,
              FirstStart(dfa.states).id, <<FirstStart(dfa.states).id>>)

\* variant: the verdict read under a key the result never has
BatchEntryWrongKey(test_string, res) ==
    [string |-> test_string,
     accepted |-> Get(res, "accept", FALSE),
     path |-> Get(res, "path", << >>),
     error |-> Get(res, "reason", None)]

\* one entry of the batch result
BatchEntry(test_string, res) ==
    [string |-> test_string,
     accepted |-> Get(res, "accepted", FALSE),
     path |-> Get(res, "path", << >>),
     error |-> Get(res, "reason", None)]

\* batch_test has no handler around simulate_string: an exception raised
\* for one string leaves the loop and the call.
batch_test(dfa, strings) ==
    LET res == [i \in DOMAIN strings |-> simulate_string(dfa, strings[i])]
    IN  IF \E i \in DOMAIN strings : "exception" \in DOMAIN res[i]
        THEN [exception |-> "KeyError"]
        ELSE [results |-> [i \in DOMAIN strings |-> BatchEntry(strings[i], res[i])]]

---------------------------------------------------------------------------
(* validate_dfa *)

validate_dfa(dfa) ==
    IF ~({"states", "transitions", "alphabet"} \subseteq DOMAIN dfa)
    THEN <<FALSE, "Missing required keys">>
    ELSE IF dfa.states = << >>
    THEN <<FALSE, "DFA must have at least one state">>
    ELSE IF ~HasStart(dfa.states)
    THEN <<FALSE, "DFA must have a start state">>
    ELSE <<TRUE, "Valid DFA">>

---------------------------------------------------------------------------
(* parse_jflap.  The document is the parsed tree: a record with an optional
   type text and an optional automaton holding the state and transition
   elements; an optional child is an optional record field. *)

\* one imported state
JflapState(state_elem) ==
    [id |-> QPrefix(state_elem.id),
     isStart |-> state_elem.initial,
     isFinal |-> state_elem.final]

\* symbol = read_elem.text if read_elem is not None and read_elem.text else ""
JflapSymbol(trans_elem) ==
    IF "read" \in DOMAIN trans_elem /\ Truthy(trans_elem.read)
    THEN trans_elem.read ELSE << >>

\* one imported transition: from_id and to_id are already prefixed when the
\* dict is built, and the dict prefixes them again.
JflapTransition(trans_elem) ==
    LET from_id == QPrefix(trans_elem.from)
        to_id == QPrefix(trans_elem.to)
    IN  [from |-> QPrefix(from_id),
         to |-> QPrefix(to_id),
         symbol |-> JflapSymbol(trans_elem)]

\* order of two one-character strs
CharLess(a, b) ==
    (CHOOSE i \in DOMAIN Digits : Digits[i] = a[1])
      < (CHOOSE i \in DOMAIN Digits : Digits[i] = b[1])

\* sorted(list(alphabet))
Sorted(S) ==
    CHOOSE f \in [1..Cardinality(S) -> S] :
        \A i, j \in 1..Cardinality(S) : i < j => CharLess(f[i], f[j])

parse_jflap(doc) ==
    IF "type" \notin DOMAIN doc \/ doc.type # "fa"
    THEN [message |-> "Not a Finite Automaton file"]
    ELSE IF "automaton" \notin DOMAIN doc
    THEN [message |-> "No automaton definition found"]
    ELSE LET state_elems == doc.automaton.states
             trans_elems == doc.automaton.transitions
         IN  IF \E i \in DOMAIN trans_elems :
                    ~({"from", "to"} \subseteq DOMAIN trans_elems[i])
             THEN [message |-> "Error parsing JFLAP file"]
             ELSE LET kept == SelectSeq(trans_elems,
                                        LAMBDA e : Truthy(JflapSymbol(e)))
                  IN  [dfa |->
                          [states |-> [i \in DOMAIN state_elems |->
                                          JflapState(state_elems[i])],
                           transitions |-> [i \in DOMAIN kept |->
                                               JflapTransition(kept[i])],
                           alphabet |-> Sorted({JflapSymbol(kept[i]) :
                                                   i \in DOMAIN kept})],
                       message |-> "Success"]

---------------------------------------------------------------------------
(* Inputs. *)

\* symbols of the explored automata, in sorted order
Symbols == <<"0", "1">>

\* an alphabet is a sorted, duplicate-free list of symbols
Alphabets == {SubSeq(Symbols, 1, k) : k \in 1..Len(Symbols)}

\* an id used by transitions that no state carries
Ghost == <<"g">>

\* ids of a generated automaton of n states: 'q0', 'q1', ...; with
\* emptyLast the last state has the empty string as its id
StateIds(n, emptyLast) ==
    [k \in 1..n |-> IF emptyLast /\ k = n THEN << >>
                    ELSE QPrefix(DigitStr(k - 1))]

StateLists(n, emptyLast) ==
    {[k \in 1..n |-> [id |-> StateIds(n, emptyLast)[k],
                      isStart |-> f[k][1],
                      isFinal |-> f[k][2]]] :
        f \in [1..n -> BOOLEAN \X BOOLEAN]}

\* the ids a generated transition may name, in a fixed order: the state
\* ids, then the ghost
IdPool(n, emptyLast) == StateIds(n, emptyLast) \o <<Ghost>>

\* position of a transition's (from, symbol) key in the order of IdPool
\* and Symbols
KeyRank(pool, t) ==
    (CHOOSE i \in DOMAIN pool : pool[i] = t.from) * Len(Symbols)
      + (CHOOSE i \in DOMAIN Symbols : Symbols[i] = t.symbol)

\* The transition lists of length k over a pool.  The code reads the list
\* only to build a dict keyed by (from, symbol), so the lists are taken with
\* their keys in non-decreasing order: every dict, and every way of one
\* entry shadowing an earlier one with the same key, is still present.
TransitionLists(pool, k) ==
    {t \in [1..k -> [from : Range(pool), symbol : Range(Symbols), to : Range(pool)]] :
        \A i \in 1..(k - 1) : KeyRank(pool, t[i]) <= KeyRank(pool, t[i + 1])}

\* the generated inputs, per number of states and id variant
Shapes == (1..MaxSize) \X BOOLEAN

StateListsOf == [c \in Shapes |-> StateLists(c[1], c[2])]

TransitionListsOf ==
    [c \in Shapes |->
        UNION {TransitionLists(IdPool(c[1], c[2]), k) : k \in 0..(MaxSize - c[1])}]

Q(i) == QPrefix(DigitStr(i))

T(f, t, sym) == [from |-> Q(f), to |-> Q(t), symbol |-> sym]

\* the catalog of get_examples
binary_even ==
    [states |-> <<[id |-> Q(0), isFinal |-> TRUE, isStart |-> TRUE],
                  [id |-> Q(1), isFinal |-> FALSE, isStart |-> FALSE]>>,
     transitions |-> <<T(0, 0, "0"), T(0, 1, "1"), T(1, 0, "0"), T(1, 1, "1")>>,
     alphabet |-> <<"0", "1">>]

divisible_by_3 ==
    [states |-> <<[id |-> Q(0), isFinal |-> TRUE, isStart |-> TRUE],
                  [id |-> Q(1), isFinal |-> FALSE, isStart |-> FALSE],
                  [id |-> Q(2), isFinal |-> FALSE, isStart |-> FALSE]>>,
     transitions |-> <<T(0, 0, "0"), T(0, 1, "1"), T(1, 2, "0"),
                       T(1, 0, "1"), T(2, 1, "0"), T(2, 2, "1")>>,
     alphabet |-> <<"0", "1">>]

contains_01 ==
    [states |-> <<[id |-> Q(0), isFinal |-> FALSE, isStart |-> TRUE],
                  [id |-> Q(1), isFinal |-> FALSE, isStart |-> FALSE],
                  [id |-> Q(2), isFinal |-> TRUE, isStart |-> FALSE]>>,
     transitions |-> <<T(0, 1, "0"), T(0, 0, "1"), T(1, 1, "0"),
                       T(1, 2, "1"), T(2, 2, "0"), T(2, 2, "1")>>,
     alphabet |-> <<"0", "1">>]

ExampleDfas == {binary_even, divisible_by_3, contains_01}

\* the strings of length at most n over a set of symbols
Strings(symbols, n) == UNION {[1..k -> symbols] : k \in 0..n}

---------------------------------------------------------------------------
(* minimize_dfa as a process: the BFS and the initial partition, one action
   per pass of the refinement loop, the quotient construction.  The caller
   may hand the minimized automaton back to minimize_dfa. *)

\* minimize_dfa calls in a row, each on the result of the one before
MaxCalls == 2

Idle ==
    /\ reachable = {}
    /\ partitions = << >>
    /\ steps = << >>
    /\ changed = FALSE
    /\ iteration = 0
    /\ result = EmptyDict

Init ==
    /\ \/ \E c \in Shapes :
             \E s \in StateListsOf[c], t \in TransitionListsOf[c], a \in Alphabets :
                dfa_data = [states |-> s, transitions |-> t, alphabet |-> a]
       \/ dfa_data \in ExampleDfas
    /\ test_strings = << >>
    /\ xml = EmptyDict
    /\ pc = "start"
    /\ calls = 1
    /\ Idle

MinimizeStart ==
    /\ pc = "start"
    /\ UNCHANGED <<dfa_data, test_strings, xml, calls>>
    /\ IF ~HasStart(dfa_data.states)
       THEN /\ result' = [error |-> "No start state"]
            /\ pc' = "done"
            /\ UNCHANGED <<reachable, partitions, steps, changed, iteration>>
       ELSE LET start_id == FirstStart(dfa_data.states).id
                reach == BFS(Adj(dfa_data), dfa_data.alphabet,
                             [reachable |-> {start_id}, queue |-> <<start_id>>])
                parts == InitialPartitions(ActiveStates(dfa_data.states, reach))
            IN  /\ reachable' = reach
                /\ partitions' = parts
                /\ steps' = <<[description |-> "Initial Partition (Final vs Non-Final)",
                               partitions |-> parts]>>
                /\ changed' = TRUE
                /\ iteration' = 0
                /\ pc' = "refine"
                /\ UNCHANGED result

RefinePass ==
    /\ pc = "refine"
    /\ changed
    /\ \E r \in RefineGroups(Adj(dfa_data), dfa_data.alphabet, partitions, 1) :
          /\ partitions' = r.parts
          /\ changed' = r.changed
          /\ iteration' = iteration + 1
          /\ steps' = IF r.changed
                      THEN Append(steps, [description |-> <<"Iteration", iteration + 1,
                                                            "Refined partitions">>,
                                          partitions |-> r.parts])
                      ELSE steps
    /\ UNCHANGED <<dfa_data, test_strings, xml, pc, calls, reachable, result>>

BuildQuotient ==
    /\ pc = "refine"
    /\ ~changed
    /\ \E rep \in Representatives(partitions) :
          result' =
            [steps |-> steps,
             minimized_dfa |->
               [states |-> MinimizedStates(
                              ActiveStates(dfa_data.states, reachable), partitions),
                transitions |-> QuotientTransitions(
                                   Adj(dfa_data), dfa_data.alphabet, partitions, rep,
                                   Len(partitions) * Len(dfa_data.alphabet)),
                alphabet |-> dfa_data.alphabet]]
    /\ pc' = "done"
    /\ UNCHANGED <<dfa_data, test_strings, xml, calls, reachable, partitions,
                   steps, changed, iteration>>

MinimizeAgain ==
    /\ pc = "done"
    /\ calls < MaxCalls
    /\ "minimized_dfa" \in DOMAIN result
    /\ dfa_data' = result.minimized_dfa
    /\ calls' = calls + 1
    /\ pc' = "start"
    /\ reachable' = {}
    /\ partitions' = << >>
    /\ steps' = << >>
    /\ changed' = FALSE
    /\ iteration' = 0
    /\ result' = EmptyDict
    /\ UNCHANGED <<test_strings, xml>>

Next == MinimizeStart \/ RefinePass \/ BuildQuotient \/ MinimizeAgain

Spec == Init /\ [][Next]_vars

---------------------------------------------------------------------------
(* Properties of minimize_dfa. *)

\* the call has returned a minimized automaton
Minimized == pc = "done" /\ "minimized_dfa" \in DOMAIN result

\* The transition function of an automaton, read off the transition list:
\* the target of the last entry for (sid, symbol), if there is one.
Entries(dfa, sid, symbol) ==
    {i \in DOMAIN dfa.transitions :
        dfa.transitions[i].from = sid /\ dfa.transitions[i].symbol = symbol}

HasEdge(dfa, sid, symbol) == Entries(dfa, sid, symbol) # {}

Target(dfa, sid, symbol) ==
    dfa.transitions[CHOOSE i \in Entries(dfa, sid, symbol) :
                       \A j \in Entries(dfa, sid, symbol) : j <= i].to

\* the ids reachable from the first start state by following transitions on
\* alphabet symbols, as the least set closed under the transition function
RECURSIVE Closure(_, _)
Closure(dfa, S) ==
    LET more == {Target(dfa, x[1], x[2]) :
                    x \in {y \in S \X Range(dfa.alphabet) : HasEdge(dfa, y[1], y[2])}}
    IN  IF more \subseteq S THEN S ELSE Closure(dfa, S \cup more)

ReachableIds(dfa) == Closure(dfa, {FirstStart(dfa.states).id})

StateIdSet(dfa) == {dfa.states[i].id : i \in DOMAIN dfa.states}

\* the strings on which the language properties are compared
TestInputs(dfa) == Strings(Range(dfa.alphabet), MaxStrLen)

\* C1: minimization preserves the language: for every automaton that
\* validate_dfa accepts and every string over its alphabet, simulate_string
\* gives the same verdict on the automaton and on its minimized automaton.
C1_LanguagePreserved ==
    (Minimized /\ validate_dfa(dfa_data)[1]) =>
        \A s \in TestInputs(dfa_data) :
            LET a == simulate_string(dfa_data, s)
                m == simulate_string(result.minimized_dfa, s)
            IN  /\ "accepted" \in DOMAIN a
                /\ "accepted" \in DOMAIN m
                /\ a.accepted = m.accepted

\* C2: minimization is idempotent on the state count: minimizing a minimized
\* automaton gives an automaton with as many states.  (In a second call
\* dfa_data is the minimized automaton of the first.)
C2_IdempotentCount ==
    (Minimized /\ calls >= 2) =>
        Len(result.minimized_dfa.states) = Len(dfa_data.states)

\* C8: a state id that is not reachable from the first start state never
\* appears in the partitions of a recorded step, nor among the members
\* absorbed into a state of the minimized automaton.
C8_UnreachablePruned ==
    (steps # << >> \/ Minimized) =>
        LET reach == ReachableIds(dfa_data)
        IN  /\ \A i \in DOMAIN steps : \A j \in DOMAIN steps[i].partitions :
                  steps[i].partitions[j] \subseteq reach
            /\ Minimized =>
                  /\ \A i \in DOMAIN result.steps :
                        \A j \in DOMAIN result.steps[i].partitions :
                           result.steps[i].partitions[j] \subseteq reach
                  /\ \A i \in DOMAIN result.minimized_dfa.states :
                        result.minimized_dfa.states[i].label \subseteq reach

\* C8 witness: a minimization has returned for an automaton that has a
\* state, named by a transition, that is not reachable from the start state.
C8_Witness ==
    /\ Minimized
    /\ \E i \in DOMAIN dfa_data.states, j \in DOMAIN dfa_data.transitions :
          /\ dfa_data.states[i].id \notin ReachableIds(dfa_data)
          /\ dfa_data.transitions[j].to = dfa_data.states[i].id

\* the partitions are non-empty, pairwise disjoint groups whose union is the
\* set of reachable states, no more groups than states, and no more passes
\* than states
PartitionInv ==
    (pc = "refine" \/ Minimized) =>
        /\ \A i, j \in DOMAIN partitions : i # j => partitions[i] \cap partitions[j] = {}
        /\ \A i \in DOMAIN partitions : partitions[i] # {}
        /\ UNION Range(partitions) = ReachableIds(dfa_data) \cap StateIdSet(dfa_data)
        /\ Len(partitions) <= Len(dfa_data.states)
        /\ iteration <= Len(dfa_data.states)

\* a pass of the loop either splits nothing, leaves the groups as they are
\* and ends the loop, or leaves strictly more groups
PassProgress ==
    (pc = "refine" /\ iteration' = iteration + 1) =>
        IF changed'
        THEN Len(partitions') > Len(partitions)
        ELSE /\ Range(partitions') = Range(partitions)
             /\ Len(partitions') = Len(partitions)

\* C9: the refinement loop terminates: a pass either ends the loop or
\* strictly increases the number of partitions; the partitions stay pairwise
\* disjoint with union the reachable states; their number never exceeds the
\* number of states.
C9_RefinementTerminates == [] PartitionInv /\ [][PassProgress]_vars

\* C9 witness: the call has returned after a pass that split a group.
C9_Witness ==
    /\ Minimized
    /\ Len(steps) >= 2
    /\ Len(steps[2].partitions) > Len(steps[1].partitions)
    /\ iteration >= 2

\* all members of group agree on symbol: they all lead into one and the same
\* partition, or none of them leads into any partition
Agree(dfa, parts, group, symbol) ==
    \/ \E k \in DOMAIN parts : \A sid \in group :
          HasEdge(dfa, sid, symbol) /\ Target(dfa, sid, symbol) \in parts[k]
    \/ \A sid \in group :
          ~(HasEdge(dfa, sid, symbol)
              /\ Target(dfa, sid, symbol) \in UNION Range(parts))

\* C10: when the loop has stopped, the members of every final partition
\* agree on every alphabet symbol and on isFinal, and the quotient has at
\* most one transition per (from-partition, symbol).
C10_RepresentativeIndependent ==
    Minimized =>
        /\ \A k \in DOMAIN partitions : \A i \in DOMAIN dfa_data.alphabet :
              Agree(dfa_data, partitions, partitions[k], dfa_data.alphabet[i])
        /\ \A k \in DOMAIN partitions : \A s1, s2 \in partitions[k] :
              StateById(dfa_data.states, s1).isFinal
                = StateById(dfa_data.states, s2).isFinal
        /\ \A i, j \in DOMAIN result.minimized_dfa.transitions :
              LET t1 == result.minimized_dfa.transitions[i]
                  t2 == result.minimized_dfa.transitions[j]
              IN  (t1.from = t2.from /\ t1.symbol = t2.symbol) => i = j

---------------------------------------------------------------------------
(* simulate_string and batch_test as operations on generated automata. *)

\* simulated automata: number of states + number of transitions <= MaxSimSize
MaxSimSize == 3

\* generated batches have 0..MaxBatch strings
MaxBatch == 2

\* the generated batches
Batches(maxLen) ==
    UNION {[1..k -> Strings(Range(Symbols), MaxStrLen)] : k \in 0..maxLen}

\* simulate_string reads neither the alphabet nor the text of an id
InitSim ==
    /\ \E n \in 1..MaxSimSize :
          \E s \in StateLists(n, FALSE),
             t \in UNION {TransitionLists(IdPool(n, FALSE), k) :
                             k \in 0..(MaxSimSize - n)} :
             dfa_data = [states |-> s, transitions |-> t, alphabet |-> Symbols]
    /\ test_strings \in Batches(MaxBatch)
    /\ xml = EmptyDict
    /\ pc = "start"
    /\ calls = 0
    /\ Idle

SimulateString ==
    /\ pc = "start"
    /\ test_strings # << >>
    /\ result' = simulate_string(dfa_data, test_strings[1])
    /\ pc' = "simulated"
    /\ UNCHANGED <<dfa_data, test_strings, xml, calls, reachable, partitions,
                   steps, changed, iteration>>

BatchTest ==
    /\ pc = "start"
    /\ result' = batch_test(dfa_data, test_strings)
    /\ pc' = "batched"
    /\ UNCHANGED <<dfa_data, test_strings, xml, calls, reachable, partitions,
                   steps, changed, iteration>>

NextSim == SimulateString \/ BatchTest

SpecSim == InitSim /\ [][NextSim]_vars

\* C5: simulate_string tolerates dangling transition targets: for an
\* automaton with a start state it returns a result value, and a transition
\* whose destination is not a state is treated as no transition (the run
\* never moves to an id that is no state, and rejects).
C5_DanglingTolerated ==
    (pc = "simulated" /\ HasStart(dfa_data.states)) =>
        /\ "exception" \notin DOMAIN result
        /\ "accepted" \in DOMAIN result
        /\ \A i \in DOMAIN result.path : result.path[i] \in StateIdSet(dfa_data)

\* C6: batch_test is order-preserving and never aborts: one entry per input
\* string, in input order, each with the verdict and path of an independent
\* simulate_string call on that string.
C6_BatchComplete ==
    pc = "batched" =>
        /\ "results" \in DOMAIN result
        /\ Len(result.results) = Len(test_strings)
        /\ \A i \in DOMAIN test_strings :
              LET r == simulate_string(dfa_data, test_strings[i])
              IN  /\ result.results[i].string = test_strings[i]
                  /\ result.results[i].accepted = Get(r, "accepted", FALSE)
                  /\ result.results[i].path = Get(r, "path", << >>)

---------------------------------------------------------------------------
(* The example catalog under batch_test. *)

\* ["00", "01", "10", "1100"]
Scenario2Strings ==
    << <<"0", "0">>, <<"0", "1">>, <<"1", "0">>, <<"1", "1", "0", "0">> >>

InitExamples ==
    /\ dfa_data \in ExampleDfas
    /\ test_strings \in Batches(MaxBatch) \cup {Scenario2Strings}
    /\ xml = EmptyDict
    /\ pc = "start"
    /\ calls = 0
    /\ Idle

SpecExamples == InitExamples /\ [][NextSim]_vars

\* C7 as stated: batch_test on the 'contains 01' example with
\* ["00","01","10","1100"] yields the accepted flags
\* [false, true, false, true], in that order.
C7_Scenario2_AsStated ==
    (pc = "batched" /\ dfa_data = contains_01 /\ test_strings = Scenario2Strings) =>
        /\ "results" \in DOMAIN result
        /\ [i \in DOMAIN result.results |-> result.results[i].accepted]
             = <<FALSE, TRUE, FALSE, TRUE>>

\* C7 amended: batch_test on the 'contains 01' example with
\* ["00","01","10","1100"] yields the accepted flags
\* [false, true, false, false], in that order ("1100" has no "01").
C7_Scenario2 ==
    (pc = "batched" /\ dfa_data = contains_01 /\ test_strings = Scenario2Strings) =>
        /\ "results" \in DOMAIN result
        /\ Len(result.results) = Len(Scenario2Strings)
        /\ [i \in DOMAIN result.results |-> result.results[i].string]
             = Scenario2Strings
        /\ [i \in DOMAIN result.results |-> result.results[i].accepted]
             = <<FALSE, TRUE, FALSE, FALSE>>

\* C7 witness: the scenario has run; "01" was accepted and "1100" rejected
\* after a full walk.
C7_Witness ==
    /\ pc = "batched"
    /\ dfa_data = contains_01
    /\ test_strings = Scenario2Strings
    /\ "results" \in DOMAIN result
    /\ result.results[2].accepted
    /\ ~result.results[4].accepted
    /\ Len(result.results[4].path) = Len(Scenario2Strings[4]) + 1

---------------------------------------------------------------------------
(* validate_dfa as an operation. *)

RequiredKeys == {"states", "transitions", "alphabet"}

\* automata of 0..MaxSimSize states, complete or lacking one required key
InitValidate ==
    /\ \E n \in 0..MaxSimSize :
          \E s \in StateLists(n, FALSE), a \in Alphabets,
             keys \in {RequiredKeys} \cup {RequiredKeys \ {key} : key \in RequiredKeys} :
             dfa_data = [key \in keys |->
                            [states |-> s, transitions |-> << >>, alphabet |-> a][key]]
    /\ test_strings = << >>
    /\ xml = EmptyDict
    /\ pc = "start"
    /\ calls = 0
    /\ Idle

Validate ==
    /\ pc = "start"
    /\ result' = validate_dfa(dfa_data)
    /\ pc' = "validated"
    /\ UNCHANGED <<dfa_data, test_strings, xml, calls, reachable, partitions,
                   steps, changed, iteration>>

NextValidate == Validate

SpecValidate == InitValidate /\ [][NextValidate]_vars

StartCount(states) == Cardinality({i \in DOMAIN states : states[i].isStart})

\* C3: validate_dfa accepts only automata with exactly one start state: an
\* empty state list, no start flag and more than one start flag are all
\* rejected.
C3_ExactlyOneStart ==
    (pc = "validated" /\ RequiredKeys \subseteq DOMAIN dfa_data) =>
        (result[1] <=> StartCount(dfa_data.states) = 1)

---------------------------------------------------------------------------
(* parse_jflap as an operation. *)

\* state elements of a generated document
MaxJflapStates == 2

\* transition elements of a generated document
MaxJflapTrans == 2

\* raw ids of the state elements, and one raw id no state element has
RawIds(n) == {DigitStr(k - 1) : k \in 1..n}

RawGhost == DigitStr(9)

StateElems(n) ==
    {[k \in 1..n |-> [id |-> DigitStr(k - 1), initial |-> f[k][1], final |-> f[k][2]]] :
        f \in [1..n -> BOOLEAN \X BOOLEAN]}

\* read texts: empty, "0", "1"
ReadTexts == {<< >>, <<"0">>, <<"1">>}

\* transition elements: complete, without a read child, without a from child
TransElems(n) ==
    [from : RawIds(n) \cup {RawGhost}, to : RawIds(n) \cup {RawGhost}, read : ReadTexts]
      \cup [from : RawIds(n) \cup {RawGhost}, to : RawIds(n) \cup {RawGhost}]
      \cup [to : RawIds(n) \cup {RawGhost}, read : ReadTexts]

TransElemLists(n) == UNION {[1..k -> TransElems(n)] : k \in 0..MaxJflapTrans}

\* a document: a type text and an automaton, or one of the two alone
InitImport ==
    /\ \E n \in 0..MaxJflapStates :
          \E s \in StateElems(n), t \in TransElemLists(n) :
             xml \in {[type |-> "fa", automaton |-> [states |-> s, transitions |-> t]],
                      [type |-> "pda", automaton |-> [states |-> s, transitions |-> t]],
                      [automaton |-> [states |-> s, transitions |-> t]],
                      [type |-> "fa"]}
    /\ dfa_data = EmptyDict
    /\ test_strings = << >>
    /\ pc = "start"
    /\ calls = 0
    /\ Idle

ParseJflap ==
    /\ pc = "start"
    /\ result' = parse_jflap(xml)
    /\ pc' = "parsed"
    /\ UNCHANGED <<dfa_data, test_strings, xml, calls, reachable, partitions,
                   steps, changed, iteration>>

NextImport == ParseJflap

SpecImport == InitImport /\ [][NextImport]_vars

\* the retained source transitions: those with a non-empty read text
Retained(doc) ==
    SelectSeq(doc.automaton.transitions,
              LAMBDA e : "read" \in DOMAIN e /\ e.read # << >>)

\* C4: parse_jflap normalizes transition endpoints with the same prefix as
\* state ids: an imported state has id 'q' + raw id, a retained transition
\* has from = 'q' + raw from and to = 'q' + raw to, so that endpoints naming
\* source states are ids of imported states.
C4_SamePrefix ==
    (pc = "parsed" /\ "dfa" \in DOMAIN result) =>
        /\ \A i \in DOMAIN result.dfa.states :
              result.dfa.states[i].id = QPrefix(xml.automaton.states[i].id)
        /\ Len(result.dfa.transitions) = Len(Retained(xml))
        /\ \A i \in DOMAIN result.dfa.transitions :
              /\ result.dfa.transitions[i].from = QPrefix(Retained(xml)[i].from)
              /\ result.dfa.transitions[i].to = QPrefix(Retained(xml)[i].to)
              /\ Retained(xml)[i].from \in RawIds(Len(xml.automaton.states))
                    => result.dfa.transitions[i].from \in StateIdSet(result.dfa)
              /\ Retained(xml)[i].to \in RawIds(Len(xml.automaton.states))
                    => result.dfa.transitions[i].to \in StateIdSet(result.dfa)

=============================================================================
